---- MODULE Spec2Model ----
(***************************************************************************)
(* Model of transcription_processor.py: the per-speaker word extraction,   *)
(* the combined timeline (a dict keyed by timestamp), the gap-based turn   *)
(* segmenter and the short-turn merger.                                    *)
(*                                                                         *)
(* Strings are sequences of one-character strings, so that strip, split,   *)
(* join and the "speaker:word" encoding are computed as the code computes  *)
(* them.  Timestamps are integers (a fixed time unit); a dict is a         *)
(* function whose DOMAIN is its key set.                                    *)
(***************************************************************************)
EXTENDS Integers, Sequences, FiniteSets, TLC

\* The number of time slots an input word can start at.
MaxTime == 4

\* Timestamps, in quarter seconds: the words start on a half-second grid.
Timestamps == { 2 * k : k \in 0 .. (MaxTime - 1) }

\* Speaker identifiers, as extract_speaker_from_filename yields them.
SpeakerIds == {<<"A">>, <<"B">>}

\* The speaker lists handed to the builder (sorted by speaker id).
SpeakerLists == {<<>>, << <<"A">> >>, << <<"A">>, <<"B">> >>}

\* The word spoken in each time slot (distinct, so that word order shows).
Letters == <<"a", "b", "c", "d", "e", "f", "g", "h">>

\* A word that starts before time zero is "z".
WordAtSlot(timestamp) ==
    IF timestamp < 0 THEN << "z" >> ELSE << Letters[(timestamp \div 2) + 1] >>

\* Timestamps as the files may hold them: one slot lies before time zero.
UncheckedTimestamps == { 2 * k - 2 : k \in 0 .. (MaxTime - 1) }

\* An element's text: a word, or text that is whitespace only.
TextKinds == {"word", "blank"}

\* Gap thresholds, in quarter seconds: below, on and above the grid step.
GapThresholds == {1, 2, 4}

SplitParameters == {1, 2}

\* Values outside the documented configuration ranges (gap_threshold > 0,
\* max_words >= 1), which the functions take like any other.
InvalidGapThresholds == {0}

InvalidSplitParameters == {0}

\* The longest turn list handed to merge_cross_talk_turns on its own.
MaxTurns == 3

\* Texts of such turns: no word, one word, two words.
TurnTexts == { <<>>, << "a" >>, << "b", " ", "c" >> }

\* How reading a speaker's file ends: completely ("none"), with ET.parse
\* raising before any element is seen ("parse"), or with float(start_time)
\* raising on element number `at` ("value").
NoFailure == [kind |-> "none", at |-> 0]

FailuresOf(elements) ==
    {NoFailure, [kind |-> "parse", at |-> 0]}
        \cup { [kind |-> "value", at |-> k] : k \in 1 .. Len(elements) }

VARIABLES pc, file_speaker_pairs, files, failures, word_dict, gap_threshold,
          turns, enable_merging, split_parameter, merged_turns, current_turn,
          next_index, written_turns

vars == <<pc, file_speaker_pairs, files, failures, word_dict, gap_threshold,
          turns, enable_merging, split_parameter, merged_turns, current_turn,
          next_index, written_turns>>

-----------------------------------------------------------------------------
(* Strings and dicts *)

IsSpace(c) == c = " "

RECURSIVE LStrip(_)
LStrip(s) ==
    IF s = <<>> THEN <<>>
    ELSE IF IsSpace(Head(s)) THEN LStrip(Tail(s)) ELSE s

RECURSIVE RStrip(_)
RStrip(s) ==
    IF s = <<>> THEN <<>>
    ELSE IF IsSpace(s[Len(s)]) THEN RStrip(SubSeq(s, 1, Len(s) - 1)) ELSE s

\* str.strip()
Strip(s) == RStrip(LStrip(s))

RECURSIVE SplitFrom(_, _, _, _)
SplitFrom(s, i, token, tokens) ==
    IF i > Len(s)
    THEN IF token = <<>> THEN tokens ELSE Append(tokens, token)
    ELSE IF IsSpace(s[i])
         THEN SplitFrom(s, i + 1, <<>>,
                        IF token = <<>> THEN tokens ELSE Append(tokens, token))
         ELSE SplitFrom(s, i + 1, Append(token, s[i]), tokens)

\* str.split(): the maximal runs of non-whitespace characters
Split(s) == SplitFrom(s, 1, <<>>, <<>>)

RECURSIVE Join(_, _)
\* sep.join(words)
Join(sep, words) ==
    IF words = <<>> THEN <<>>
    ELSE IF Len(words) = 1 THEN words[1]
    ELSE words[1] \o sep \o Join(sep, Tail(words))

RECURSIVE ColonIndex(_, _)
ColonIndex(s, i) ==
    IF i > Len(s) THEN 0
    ELSE IF s[i] = ":" THEN i ELSE ColonIndex(s, i + 1)

\* s.split(':', 1): the parts before and after the first colon
SplitColon(s) ==
    LET k == ColonIndex(s, 1)
    IN  IF k = 0 THEN << s >>
        ELSE << SubSeq(s, 1, k - 1), SubSeq(s, k + 1, Len(s)) >>

EmptyDict == [k \in {} |-> <<>>]

\* d[k] = v
DictPut(d, k, v) == [x \in (DOMAIN d) \cup {k} |-> IF x = k THEN v ELSE d[x]]

\* d.update(e)
DictUpdate(d, e) ==
    [x \in (DOMAIN d) \cup (DOMAIN e) |-> IF x \in DOMAIN e THEN e[x] ELSE d[x]]

RECURSIVE SortedSeq(_)
\* sorted(keys)
SortedSeq(S) ==
    IF S = {} THEN <<>>
    ELSE LET m == CHOOSE x \in S : \A y \in S : x <= y
         IN  << m >> \o SortedSeq(S \ {m})

-----------------------------------------------------------------------------
(* extract_words_from_xml and build_chronological_word_dictionary *)

RECURSIVE ExtractFrom(_, _, _, _, _)
\* The loop over the <w> elements.  An exception raised on an element is
\* caught by the except clauses, which fall through to the return of the
\* words stored so far.
ExtractFrom(elements, speaker_id, failure, i, word_timestamps) ==
    IF i > Len(elements) THEN word_timestamps
    ELSE LET word_text == elements[i].text
             timestamp == elements[i].starttime
             clean_word == Strip(word_text)
         IN  IF word_text # <<>>
             THEN IF failure.kind = "value" /\ failure.at = i
                  THEN word_timestamps
                  ELSE ExtractFrom(elements, speaker_id, failure, i + 1,
                           DictPut(word_timestamps, timestamp,
                                   speaker_id \o <<":">> \o clean_word))
             ELSE ExtractFrom(elements, speaker_id, failure, i + 1,
                              word_timestamps)

extract_words_from_xml(elements, speaker_id, failure) ==
    IF failure.kind = "parse" THEN EmptyDict
    ELSE ExtractFrom(elements, speaker_id, failure, 1, EmptyDict)

RECURSIVE BuildFrom(_, _, _, _, _)
BuildFrom(pairs, fs, fl, i, combined_word_dict) ==
    IF i > Len(pairs) THEN combined_word_dict
    ELSE BuildFrom(pairs, fs, fl, i + 1,
             DictUpdate(combined_word_dict,
                        extract_words_from_xml(fs[pairs[i]], pairs[i],
                                               fl[pairs[i]])))

build_chronological_word_dictionary(pairs, fs, fl) ==
    BuildFrom(pairs, fs, fl, 1, EmptyDict)

-----------------------------------------------------------------------------
(* create_turns_with_gap_logic *)

Turn(speaker, text, onset, offset) ==
    [speaker |-> speaker, text |-> text, onset |-> onset, offset |-> offset]

NewTurn(word, timestamp) ==
    [words |-> << word >>, start |-> timestamp, end |-> timestamp]

CloseTurn(speaker, turn_data) ==
    Turn(speaker, Join(<<" ">>, turn_data.words), turn_data.start, turn_data.end)

\* Variant: a gap equal to the threshold closes the turn.
GapTooLong_Inclusive(gap, threshold) == gap >= threshold

GapTooLong(gap, threshold) == gap > threshold

\* Variant: the gap is measured from the last word of any speaker.
LastTimestamp_AnySpeaker(last, speaker) ==
    CHOOSE m \in { last[s] : s \in DOMAIN last } :
        \A s \in DOMAIN last : last[s] <= m

\* speaker_last_timestamp[speaker]
LastTimestamp(last, speaker) == last[speaker]

\* One iteration of the loop over sorted_timestamps.  seen_order is the
\* insertion order of speaker_current_turn's keys.
SegmentWord(st, timestamp, value, threshold) ==
    LET speaker_and_word == SplitColon(value)
        speaker == speaker_and_word[1]
        word == speaker_and_word[2]
        after ==
            IF speaker \in DOMAIN st.speaker_current_turn
            THEN LET gap == timestamp - LastTimestamp(st.speaker_last_timestamp, speaker)
                     cur == st.speaker_current_turn[speaker]
                 IN  IF GapTooLong(gap, threshold)
                     THEN [st EXCEPT
                             !.turns = Append(@, CloseTurn(speaker, cur)),
                             !.speaker_current_turn =
                                 DictPut(@, speaker, NewTurn(word, timestamp))]
                     ELSE [st EXCEPT
                             !.speaker_current_turn =
                                 DictPut(@, speaker,
                                     [cur EXCEPT !.words = Append(@, word),
                                                 !.end = timestamp])]
            ELSE [st EXCEPT
                    !.speaker_current_turn =
                        DictPut(@, speaker, NewTurn(word, timestamp)),
                    !.seen_order = Append(@, speaker)]
    IN  [after EXCEPT
            !.speaker_last_timestamp = DictPut(@, speaker, timestamp)]

RECURSIVE SegmentFrom(_, _, _, _, _)
SegmentFrom(d, sorted_timestamps, i, st, threshold) ==
    IF i > Len(sorted_timestamps) THEN st
    ELSE SegmentFrom(d, sorted_timestamps, i + 1,
             SegmentWord(st, sorted_timestamps[i], d[sorted_timestamps[i]],
                         threshold),
             threshold)

\* Variant: the turns still open at the end of the stream are not emitted.
Finalize_NoFlush(st, i, out) == out

RECURSIVE Finalize(_, _, _)
\* "Finalize any remaining ongoing turns", in the dict's insertion order
Finalize(st, i, out) ==
    IF i > Len(st.seen_order) THEN out
    ELSE Finalize(st, i + 1,
             Append(out, CloseTurn(st.seen_order[i],
                                   st.speaker_current_turn[st.seen_order[i]])))

RECURSIVE InsertByOnset(_, _)
InsertByOnset(sorted, t) ==
    IF sorted = <<>> THEN << t >>
    ELSE IF t.onset < Head(sorted).onset THEN << t >> \o sorted
    ELSE << Head(sorted) >> \o InsertByOnset(Tail(sorted), t)

RECURSIVE SortByOnsetFrom(_, _, _)
SortByOnsetFrom(ts, i, sorted) ==
    IF i > Len(ts) THEN sorted
    ELSE SortByOnsetFrom(ts, i + 1, InsertByOnset(sorted, ts[i]))

\* Variant: the list is returned in emission order.
SortByOnset_Unsorted(ts) == ts

\* turns.sort(key=lambda x: x[2]): a stable sort by onset
SortByOnset(ts) == SortByOnsetFrom(ts, 1, <<>>)

\* The turns list as it stands before the final sort: the turns closed by a
\* gap, in closing order, then the flushed ones.
TurnsBeforeSort(d, threshold) ==
    LET sorted_timestamps == SortedSeq(DOMAIN d)
        st0 == [turns |-> <<>>,
                speaker_last_timestamp |-> EmptyDict,
                speaker_current_turn |-> EmptyDict,
                seen_order |-> <<>>]
        st == SegmentFrom(d, sorted_timestamps, 1, st0, threshold)
    IN  Finalize(st, 1, st.turns)

create_turns_with_gap_logic(d, threshold) ==
    IF DOMAIN d = {} THEN <<>>
    ELSE SortByOnset(TurnsBeforeSort(d, threshold))

-----------------------------------------------------------------------------
(* merge_cross_talk_turns *)

WordCount(text) == Len(Split(text))

\* Variant: the word count is taken on the next turn only.
ShouldMerge_AccumulatorUnchecked(cur, nxt, limit) ==
    /\ cur.speaker = nxt.speaker
    /\ Len(Split(nxt.text)) <= limit

\* Variant: short neighbours are merged whoever speaks.
ShouldMerge_AnySpeaker(cur, nxt, limit) ==
    /\ Len(Split(cur.text)) <= limit
    /\ Len(Split(nxt.text)) <= limit

\* Variant: the accumulator may grow to twice the limit before it stops
\* taking turns.
ShouldMerge_DoubleAccumulator(cur, nxt, limit) ==
    /\ cur.speaker = nxt.speaker
    /\ Len(Split(cur.text)) <= 2 * limit
    /\ Len(Split(nxt.text)) <= limit

ShouldMerge(cur, nxt, limit) ==
    /\ cur.speaker = nxt.speaker
    /\ WordCount(cur.text) <= limit
    /\ WordCount(nxt.text) <= limit

\* Variant: the merged turn ends where the accumulator ended.
MergedTurn_KeepsOffset(cur, nxt) ==
    Turn(cur.speaker, cur.text \o <<" ">> \o nxt.text, cur.onset, cur.offset)

\* Variant: the merged turn keeps the accumulator's text alone.
MergedTurn_DropsNextText(cur, nxt) ==
    Turn(cur.speaker, cur.text, cur.onset, nxt.offset)

MergedTurn(cur, nxt) ==
    Turn(cur.speaker, cur.text \o <<" ">> \o nxt.text, cur.onset, nxt.offset)

NoTurn == Turn(<<>>, <<>>, 0, 0)

RECURSIVE MergeFrom(_, _, _, _, _)
MergeFrom(ts, limit, i, cur, merged) ==
    IF i > Len(ts) THEN Append(merged, cur)
    ELSE IF ShouldMerge(cur, ts[i], limit)
         THEN MergeFrom(ts, limit, i + 1, MergedTurn(cur, ts[i]), merged)
         ELSE MergeFrom(ts, limit, i + 1, ts[i], Append(merged, cur))

\* The function as one call: what it returns for a list and a limit.
merge_cross_talk_turns(ts, limit) ==
    IF ts = <<>> THEN <<>> ELSE MergeFrom(ts, limit, 2, ts[1], <<>>)

-----------------------------------------------------------------------------
(* The pipeline *)

\* The <w> elements of one file, in document order.
ElementsOf(kind) ==
    LET ts == SortedSeq(DOMAIN kind)
    IN  [i \in 1 .. Len(ts) |->
            [starttime |-> ts[i],
             text |-> IF kind[ts[i]] = "word" THEN WordAtSlot(ts[i])
                      ELSE << " " >>]]

FileContentsOver(timestamps, kinds) ==
    { ElementsOf(kind) : kind \in UNION { [S -> kinds] : S \in SUBSET timestamps } }

FileContents == FileContentsOver(Timestamps, TextKinds)

InSeq(x, s) == \E i \in 1 .. Len(s) : s[i] = x

\* The state before the first stage, for files drawn from `contents`.
Start(contents) ==
    /\ pc = "start"
    /\ file_speaker_pairs \in SpeakerLists
    /\ files \in [SpeakerIds -> contents]
    /\ \A s \in SpeakerIds : ~InSeq(s, file_speaker_pairs) => files[s] = <<>>
    /\ word_dict = EmptyDict
    /\ gap_threshold = 0
    /\ turns = <<>>
    /\ enable_merging = TRUE
    /\ split_parameter = 0
    /\ merged_turns = <<>>
    /\ current_turn = NoTurn
    /\ next_index = 0
    /\ written_turns = <<>>

\* Any list of turn tuples a caller may pass to merge_cross_talk_turns: in
\* any order, with repeated onsets and empty texts.
TurnLists ==
    LET tuples == { Turn(speaker, text, onset, onset + 1) :
                        speaker \in SpeakerIds, text \in TurnTexts,
                        onset \in {0, 1} }
    IN  UNION { [1 .. n -> tuples] : n \in 0 .. MaxTurns }

\* merge_cross_talk_turns is about to be called on a list of its caller.
InitMerger ==
    /\ pc = "segmented"
    /\ file_speaker_pairs = <<>>
    /\ files = [s \in SpeakerIds |-> <<>>]
    /\ failures = [s \in SpeakerIds |-> NoFailure]
    /\ word_dict = EmptyDict
    /\ gap_threshold = 0
    /\ turns \in TurnLists
    /\ enable_merging = TRUE
    /\ split_parameter = 0
    /\ merged_turns = <<>>
    /\ current_turn = NoTurn
    /\ next_index = 0
    /\ written_turns = <<>>

\* Well-formed files that all read completely.
Init ==
    /\ Start(FileContents)
    /\ failures = [s \in SpeakerIds |-> NoFailure]

\* Files that all read completely and may hold a word before time zero.
InitUnchecked ==
    /\ Start(FileContentsOver(UncheckedTimestamps, TextKinds))
    /\ failures = [s \in SpeakerIds |-> NoFailure]

\* Files of words, of which at most one fails while it is read.
InitFaulty ==
    /\ Start(FileContentsOver(Timestamps, {"word"}))
    /\ failures \in [SpeakerIds -> UNION { FailuresOf(f) : f \in FileContents }]
    /\ \A s \in SpeakerIds :
          /\ failures[s] \in FailuresOf(files[s])
          /\ ~InSeq(s, file_speaker_pairs) => failures[s] = NoFailure
    /\ Cardinality({ s \in SpeakerIds : failures[s] # NoFailure }) <= 1

BuildTimeline ==
    /\ pc = "start"
    /\ word_dict' = build_chronological_word_dictionary(file_speaker_pairs,
                                                        files, failures)
    /\ pc' = "built"
    /\ UNCHANGED <<file_speaker_pairs, files, failures, gap_threshold, turns,
                   enable_merging, split_parameter, merged_turns,
                   current_turn, next_index, written_turns>>

\* The call of create_turns_with_gap_logic with a threshold of `thresholds`.
CreateTurnsWith(thresholds) ==
    /\ pc = "built"
    /\ \E threshold \in thresholds :
          /\ gap_threshold' = threshold
          /\ turns' = create_turns_with_gap_logic(word_dict, threshold)
    /\ pc' = "segmented"
    /\ UNCHANGED <<file_speaker_pairs, files, failures, word_dict,
                   enable_merging, split_parameter, merged_turns,
                   current_turn, next_index, written_turns>>

CreateTurns == CreateTurnsWith(GapThresholds)

CreateTurnsAnyThreshold ==
    CreateTurnsWith(GapThresholds \cup InvalidGapThresholds)

\* Variant: no empty-list return; the accumulator starts out unset.
MergeBegin_NoGuard ==
    /\ pc = "segmented"
    /\ enable_merging' = TRUE
    /\ \E limit \in SplitParameters : split_parameter' = limit
    /\ merged_turns' = <<>>
    /\ pc' = "merging"
    /\ current_turn' = IF turns = <<>> THEN NoTurn ELSE turns[1]
    /\ next_index' = 2
    /\ UNCHANGED <<file_speaker_pairs, files, failures, word_dict,
                   gap_threshold, turns, written_turns>>

\* Entry of merge_cross_talk_turns, called because merging is enabled, with
\* a limit of `limits`: the empty-list return, or the initialisation of the
\* accumulator with turns[0].
MergeBeginWith(limits) ==
    /\ pc = "segmented"
    /\ enable_merging' = TRUE
    /\ \E limit \in limits : split_parameter' = limit
    /\ merged_turns' = <<>>
    /\ IF turns = <<>>
       THEN /\ pc' = "done"
            /\ UNCHANGED <<current_turn, next_index>>
       ELSE /\ pc' = "merging"
            /\ current_turn' = turns[1]
            /\ next_index' = 2
    /\ UNCHANGED <<file_speaker_pairs, files, failures, word_dict,
                   gap_threshold, turns, written_turns>>

MergeBegin == MergeBeginWith(SplitParameters)

MergeBeginAnyLimit ==
    MergeBeginWith(SplitParameters \cup InvalidSplitParameters)

\* One iteration of "for next_turn in turns[1:]".
MergeIteration ==
    /\ pc = "merging"
    /\ next_index <= Len(turns)
    /\ LET next_turn == turns[next_index]
       IN  IF ShouldMerge(current_turn, next_turn, split_parameter)
           THEN /\ current_turn' = MergedTurn(current_turn, next_turn)
                /\ UNCHANGED merged_turns
           ELSE /\ merged_turns' = Append(merged_turns, current_turn)
                /\ current_turn' = next_turn
    /\ next_index' = next_index + 1
    /\ UNCHANGED <<pc, file_speaker_pairs, files, failures, word_dict,
                   gap_threshold, turns, enable_merging, split_parameter,
                   written_turns>>

\* Variant: the final accumulator is not added.
MergeReturn_DropsFinal ==
    /\ pc = "merging"
    /\ next_index > Len(turns)
    /\ pc' = "done"
    /\ UNCHANGED <<file_speaker_pairs, files, failures, word_dict,
                   gap_threshold, turns, enable_merging, split_parameter,
                   merged_turns, current_turn, next_index, written_turns>>

\* "Add the final turn" and return.
MergeReturn ==
    /\ pc = "merging"
    /\ next_index > Len(turns)
    /\ merged_turns' = Append(merged_turns, current_turn)
    /\ pc' = "done"
    /\ UNCHANGED <<file_speaker_pairs, files, failures, word_dict,
                   gap_threshold, turns, enable_merging, split_parameter,
                   current_turn, next_index, written_turns>>

\* Variant: the segmenter's output is written whether merging ran or not.
WriteMerged_SegmenterOutput ==
    /\ pc = "done"
    /\ written_turns' = turns
    /\ pc' = "written"
    /\ UNCHANGED <<file_speaker_pairs, files, failures, word_dict,
                   gap_threshold, turns, enable_merging, split_parameter,
                   merged_turns, current_turn, next_index>>

\* The merger's result is the list handed to write_turns_to_csv.
WriteMerged ==
    /\ pc = "done"
    /\ written_turns' = merged_turns
    /\ pc' = "written"
    /\ UNCHANGED <<file_speaker_pairs, files, failures, word_dict,
                   gap_threshold, turns, enable_merging, split_parameter,
                   merged_turns, current_turn, next_index>>

\* Merging is disabled: the merge step is skipped and the segmenter's
\* output is the list handed to write_turns_to_csv.
WriteUnmerged ==
    /\ pc = "segmented"
    /\ enable_merging' = FALSE
    /\ written_turns' = turns
    /\ pc' = "written"
    /\ UNCHANGED <<file_speaker_pairs, files, failures, word_dict,
                   gap_threshold, turns, split_parameter, merged_turns,
                   current_turn, next_index>>

Next ==
    \/ BuildTimeline
    \/ CreateTurns
    \/ MergeBegin
    \/ MergeIteration
    \/ MergeReturn
    \/ WriteMerged
    \/ WriteUnmerged

\* Valid configuration, well-formed files.
Spec == Init /\ [][Next]_vars

\* The same pipeline with configuration values taken as supplied.
NextAnyConfig ==
    \/ BuildTimeline
    \/ CreateTurnsAnyThreshold
    \/ MergeBeginAnyLimit
    \/ MergeIteration
    \/ MergeReturn
    \/ WriteMerged
    \/ WriteUnmerged

SpecAnyConfig == Init /\ [][NextAnyConfig]_vars

\* The same pipeline over files that may hold a word before time zero.
SpecUnchecked == InitUnchecked /\ [][Next]_vars

\* The same pipeline over files of which one may fail while it is read.
SpecFaulty == InitFaulty /\ [][Next]_vars

\* merge_cross_talk_turns alone, on any turn list.
NextMerger ==
    \/ MergeBegin
    \/ MergeIteration
    \/ MergeReturn

SpecMerger == InitMerger /\ [][NextMerger]_vars

-----------------------------------------------------------------------------
(* Vocabulary of the properties *)

\* create_turns_with_gap_logic has just returned.
Segmented == pc = "segmented"

SpeakerOf(value) == SplitColon(value)[1]

WordOf(value) == SplitColon(value)[2]

\* The timestamps of one speaker's words in a timeline.
SpeakerTimes(d, speaker) == { t \in DOMAIN d : SpeakerOf(d[t]) = speaker }

\* The timeline restricted to one speaker's words.
RestrictTo(d, speaker) == [t \in SpeakerTimes(d, speaker) |-> d[t]]

\* a and b are consecutive words of the set of timestamps S.
Consecutive(S, a, b) ==
    /\ a \in S /\ b \in S /\ a < b
    /\ ~ \E c \in S : a < c /\ c < b

\* The timestamps of the speaker's words that fall inside a turn.
TimesInTurn(d, t) ==
    { x \in SpeakerTimes(d, t.speaker) : t.onset <= x /\ x <= t.offset }

TurnsOf(ts, speaker) == SelectSeq(ts, LAMBDA t : t.speaker = speaker)

\* Turns i < j of one speaker with no turn of that speaker between them.
NextOfSpeaker(ts, i, j) ==
    /\ i < j
    /\ ts[i].speaker = ts[j].speaker
    /\ ~ \E k \in (i + 1) .. (j - 1) : ts[k].speaker = ts[i].speaker

-----------------------------------------------------------------------------
\* C1: in the segmenter's output, two consecutive words inside one turn are
\* at most gap_threshold apart, and two consecutive turns of one speaker are
\* strictly more than gap_threshold apart (offset of the earlier to onset of
\* the later), so a gap equal to the threshold never closes a turn.
C1_GapInvariant ==
    Segmented =>
        /\ \A i \in 1 .. Len(turns) :
              LET S == TimesInTurn(word_dict, turns[i])
              IN  \A a, b \in S : Consecutive(S, a, b) => b - a <= gap_threshold
        /\ \A i, j \in 1 .. Len(turns) :
              NextOfSpeaker(turns, i, j) =>
                  turns[j].onset - turns[i].offset > gap_threshold

\* A turn holding two words exactly gap_threshold apart, followed by a
\* later turn of the same speaker.
C1_Witness ==
    /\ pc = "segmented"
    /\ \E i, j \in 1 .. Len(turns) :
          /\ NextOfSpeaker(turns, i, j)
          /\ LET S == TimesInTurn(word_dict, turns[i])
             IN  \E a, b \in S : Consecutive(S, a, b) /\ b - a = gap_threshold

\* C2: the turns of a speaker in the segmentation of the full timeline are
\* exactly the segmentation of the timeline restricted to that speaker's
\* words, so turns of different speakers may overlap in time.
C2_SpeakerIndependence ==
    Segmented =>
        \A s \in SpeakerIds :
            TurnsOf(turns, s) =
                create_turns_with_gap_logic(RestrictTo(word_dict, s), gap_threshold)

\* A turn of one speaker that starts strictly inside a turn of the other.
C2_Witness ==
    /\ pc = "segmented"
    /\ \E i, j \in 1 .. Len(turns) :
          /\ turns[i].speaker # turns[j].speaker
          /\ turns[i].onset < turns[j].onset
          /\ turns[j].onset < turns[i].offset

\* C3: the combined timeline retains every word event of every speaker:
\* each speaker's extracted words are all in it, and it holds as many
\* events as the speakers' word lists hold in total.
RECURSIVE TotalWords(_, _, _)
TotalWords(pairs, fs, i) ==
    IF i > Len(pairs) THEN 0
    ELSE Cardinality(DOMAIN extract_words_from_xml(fs[pairs[i]], pairs[i],
                                                   NoFailure))
         + TotalWords(pairs, fs, i + 1)

C3_AllWordsRetained ==
    pc # "start" =>
        /\ \A i \in 1 .. Len(file_speaker_pairs) :
              LET speaker_words ==
                      extract_words_from_xml(files[file_speaker_pairs[i]],
                                             file_speaker_pairs[i], NoFailure)
              IN  \A t \in DOMAIN speaker_words :
                      t \in DOMAIN word_dict /\ word_dict[t] = speaker_words[t]
        /\ Cardinality(DOMAIN word_dict) = TotalWords(file_speaker_pairs, files, 1)

\* C4: the segmenter's output is ordered by onset across all speakers,
\* the turns emitted by the end-of-stream flush included.
C4_OrderedByOnset ==
    Segmented =>
        \A i \in 1 .. (Len(turns) - 1) : turns[i].onset <= turns[i + 1].onset

\* The list before the final sort is out of order: a flushed turn starts
\* before a turn that was appended ahead of it.
C4_Witness ==
    /\ pc = "segmented"
    /\ TurnsBeforeSort(word_dict, gap_threshold) # turns

\* C5: every emitted turn has non-empty text, an onset that is the timestamp
\* of its first word, an offset that is the timestamp of its last word, and
\* onset <= offset; a turn of a single word has onset = offset.
C5_TurnShape ==
    Segmented =>
        \A i \in 1 .. Len(turns) :
            LET S == TimesInTurn(word_dict, turns[i])
            IN  /\ turns[i].text # <<>>
                /\ turns[i].onset \in S
                /\ turns[i].offset \in S
                /\ turns[i].onset <= turns[i].offset
                /\ Cardinality(S) = 1 => turns[i].onset = turns[i].offset

\* The words of a turn, in chronological order.
WordsInTurn(d, t) ==
    LET ts == SortedSeq(TimesInTurn(d, t))
    IN  [k \in 1 .. Len(ts) |-> WordOf(d[ts[k]])]

RECURSIVE TokenTotal(_, _)
TokenTotal(ts, i) ==
    IF i > Len(ts) THEN 0
    ELSE Len(Split(ts[i].text)) + TokenTotal(ts, i + 1)

\* C6: every word event of the timeline is in exactly one turn of its own
\* speaker; a turn's text has as many whitespace-separated tokens as words
\* it consumed, in chronological order, and the token counts of all turns
\* sum to the number of word events.
C6_EveryWordInOneTurn ==
    Segmented =>
        /\ \A t \in DOMAIN word_dict :
              Cardinality({ i \in 1 .. Len(turns) :
                              /\ turns[i].speaker = SpeakerOf(word_dict[t])
                              /\ turns[i].onset <= t
                              /\ t <= turns[i].offset }) = 1
        /\ \A i \in 1 .. Len(turns) :
              Split(turns[i].text) = WordsInTurn(word_dict, turns[i])
        /\ TokenTotal(turns, 1) = Cardinality(DOMAIN word_dict)

\* C7: one step of the merger merges the next turn into the accumulator
\* exactly when both have the same speaker and both the accumulator's
\* current text and the next turn's text have at most max_words tokens; the
\* merged turn joins the texts with one space and runs from the
\* accumulator's onset to the next turn's offset; otherwise the accumulator
\* is committed unchanged and the next turn becomes the accumulator.
C7_MergeRule ==
    [][ (pc = "merging" /\ next_index' = next_index + 1) =>
          LET nxt == turns[next_index]
              eligible ==
                  /\ current_turn.speaker = nxt.speaker
                  /\ Len(Split(current_turn.text)) <= split_parameter
                  /\ Len(Split(nxt.text)) <= split_parameter
          IN  IF eligible
              THEN /\ current_turn' =
                        [speaker |-> current_turn.speaker,
                         text |-> current_turn.text \o <<" ">> \o nxt.text,
                         onset |-> current_turn.onset,
                         offset |-> nxt.offset]
                   /\ merged_turns' = merged_turns
              ELSE /\ merged_turns' = Append(merged_turns, current_turn)
                   /\ current_turn' = nxt
      ]_vars

\* The accumulator is the product of a merge, has grown beyond max_words,
\* and the next turn is a short turn of the same speaker.
C7_Witness ==
    /\ pc = "merging"
    /\ next_index <= Len(turns)
    /\ current_turn # turns[next_index - 1]
    /\ current_turn.speaker = turns[next_index].speaker
    /\ Len(Split(current_turn.text)) > split_parameter
    /\ Len(Split(turns[next_index].text)) <= split_parameter

\* The turn made of the run of input turns that ends with t.
RunTurn(acc, t) ==
    [speaker |-> acc.speaker, text |-> acc.text \o <<" ">> \o t.text,
     onset |-> acc.onset, offset |-> t.offset]

RECURSIVE CombineFrom(_, _, _, _, _)
CombineFrom(ts, cuts, i, acc, out) ==
    IF i > Len(ts) THEN Append(out, acc)
    ELSE IF (i - 1) \in cuts
         THEN CombineFrom(ts, cuts, i + 1, ts[i], Append(out, acc))
         ELSE CombineFrom(ts, cuts, i + 1, RunTurn(acc, ts[i]), out)

\* The list ts with each run between two cuts combined into one turn.
Combine(ts, cuts) ==
    IF ts = <<>> THEN <<>> ELSE CombineFrom(ts, cuts, 2, ts[1], <<>>)

\* C8: every turn of the merger's output is built from a run of
\* list-adjacent input turns of one speaker, so two turns of a speaker with
\* another speaker's turn between them are never merged.
C8_RunsOfOneSpeaker ==
    pc = "done" =>
        \E cuts \in SUBSET (1 .. (Len(turns) - 1)) :
            /\ \A i \in 1 .. (Len(turns) - 1) :
                  i \notin cuts => turns[i].speaker = turns[i + 1].speaker
            /\ merged_turns = Combine(turns, cuts)

\* Two short turns of one speaker with a short turn of the other speaker
\* between them have gone through the merger.
C8_Witness ==
    /\ pc = "done"
    /\ \E i \in 1 .. (Len(turns) - 2) :
          /\ turns[i].speaker = turns[i + 2].speaker
          /\ turns[i].speaker # turns[i + 1].speaker
          /\ \A k \in i .. (i + 2) :
                Len(Split(turns[k].text)) <= split_parameter

C10_EmptyInEmptyOut ==
    /\ (/\ pc # "start"
        /\ \A i \in 1 .. Len(file_speaker_pairs) :
              files[file_speaker_pairs[i]] = <<>>)
           => word_dict = EmptyDict
    /\ (pc \notin {"start", "built"} /\ word_dict = EmptyDict) => turns = <<>>
    /\ (pc \in {"merging", "done"} /\ turns = <<>>)
           => (pc = "done" /\ merged_turns = <<>>)

\* All three stages have run for speakers that have no words.
C10_Witness ==
    /\ pc = "done"
    /\ file_speaker_pairs # <<>>
    /\ word_dict = EmptyDict
    /\ merged_turns = <<>>

\* C11: an invalid configuration (gap_threshold <= 0 or max_words < 1) is
\* rejected before segmentation: no turn is ever produced from it.
C11_InvalidConfigRejected ==
    /\ (pc \notin {"start", "built"} /\ gap_threshold <= 0) => turns = <<>>
    /\ (pc \in {"done", "written"} /\ enable_merging /\ split_parameter < 1)
           => merged_turns = <<>>

\* C12: a word event with a negative timestamp is rejected: it is not in
\* the timeline and gives no turn its text, its onset or its offset.
C12_NegativeTimestampRejected ==
    /\ \A t \in DOMAIN word_dict : t >= 0
    /\ \A i \in 1 .. Len(turns) :
          /\ turns[i].onset >= 0
          /\ turns[i].offset >= 0
          /\ \A k \in 1 .. Len(turns[i].text) : turns[i].text[k] # "z"

\* A speaker of the run whose file was read without a failure.
ReadCompletely(speaker) ==
    /\ InSeq(speaker, file_speaker_pairs)
    /\ failures[speaker] = NoFailure

\* C13: when reading one speaker's file fails, the run goes on and every
\* word of every speaker whose file was read is in the timeline and, once
\* the segmenter has run, inside a turn of that speaker.
C13_OtherSpeakersKept ==
    (pc # "start" /\ \E f \in SpeakerIds : failures[f] # NoFailure) =>
        \A s \in SpeakerIds :
            ReadCompletely(s) =>
                LET speaker_words == extract_words_from_xml(files[s], s, NoFailure)
                IN  \A t \in DOMAIN speaker_words :
                        /\ t \in DOMAIN word_dict
                        /\ word_dict[t] = speaker_words[t]
                        /\ pc # "built" =>
                              \E i \in 1 .. Len(turns) :
                                  /\ turns[i].speaker = s
                                  /\ turns[i].onset <= t
                                  /\ t <= turns[i].offset

\* C14: the list written out is the segmenter's output itself when merging
\* is disabled, and merge_cross_talk_turns of the segmenter's output and the
\* configured max words when merging is enabled.
C14_MergingOptional ==
    pc = "written" =>
        written_turns =
            IF enable_merging
            THEN merge_cross_talk_turns(turns, split_parameter)
            ELSE turns

\* Merging was disabled for a turn list that the merger would have changed
\* under every limit, and the list was written as it was.
C14_Witness ==
    /\ pc = "written"
    /\ ~enable_merging
    /\ written_turns # <<>>
    /\ \A limit \in SplitParameters :
          merge_cross_talk_turns(turns, limit) # written_turns

\* The words of S that are followed, in S, by a gap longer than threshold.
LongGaps(S, threshold) ==
    { a \in S : \E b \in S : Consecutive(S, a, b) /\ b - a > threshold }

\* C15: in the segmenter's output a speaker without words has no turn, a
\* speaker with words has one turn more than it has gaps between consecutive
\* words that are strictly greater than gap_threshold, and the turn still
\* open at the end of the stream, the one ending with the speaker's last
\* word, is in the output exactly once.
C15_FlushedOnce ==
    Segmented =>
        \A s \in SpeakerIds :
            LET S == SpeakerTimes(word_dict, s)
            IN  IF S = {}
                THEN TurnsOf(turns, s) = <<>>
                ELSE /\ Len(TurnsOf(turns, s)) =
                           1 + Cardinality(LongGaps(S, gap_threshold))
                     /\ Cardinality({ i \in 1 .. Len(turns) :
                             /\ turns[i].speaker = s
                             /\ \A t \in S : t <= turns[i].offset }) = 1

\* Two speakers are open at the end of the stream; one of them had a turn
\* closed by a long gap before, and also a gap that closed nothing.
C15_Witness ==
    /\ pc = "segmented"
    /\ \A s \in SpeakerIds : TurnsOf(turns, s) # <<>>
    /\ \E s \in SpeakerIds :
          LET S == SpeakerTimes(word_dict, s)
          IN  /\ LongGaps(S, gap_threshold) # {}
              /\ \E a, b \in S :
                    Consecutive(S, a, b) /\ b - a <= gap_threshold

\* The turns the merger has built so far: the committed ones and, while
\* the loop runs, the accumulator.
BuiltByMerger ==
    { merged_turns[k] : k \in 1 .. Len(merged_turns) }
        \cup (IF pc = "merging" THEN {current_turn} ELSE {})

\* C16: merge chains are bounded.  An accumulator whose text has more than
\* max_words tokens takes no further turn: the step commits it as it is and
\* restarts from the next turn.  Hence every turn the merger builds that is
\* not an input turn, so was formed by at least one merge, has at most
\* 2 * max_words tokens.
C16_BoundedChains ==
    /\ [](pc \in {"merging", "done"} =>
            \A t \in BuiltByMerger :
                ~InSeq(t, turns) => Len(Split(t.text)) <= 2 * split_parameter)
    /\ [][ (/\ pc = "merging"
            /\ next_index' = next_index + 1
            /\ Len(Split(current_turn.text)) > split_parameter)
           => /\ merged_turns' = Append(merged_turns, current_turn)
              /\ current_turn' = turns[next_index]
       ]_vars

\* A merged turn that outgrew max_words was committed although the turn
\* after it was a short turn of the same speaker.
C16_Witness ==
    /\ pc = "done"
    /\ \E k \in 1 .. (Len(merged_turns) - 1) :
          /\ ~InSeq(merged_turns[k], turns)
          /\ Len(Split(merged_turns[k].text)) > split_parameter
          /\ merged_turns[k + 1].speaker = merged_turns[k].speaker
          /\ InSeq(merged_turns[k + 1], turns)
          /\ Len(Split(merged_turns[k + 1].text)) <= split_parameter

\* The tokens of the texts of a turn list, in list order.
RECURSIVE TokensFrom(_, _)
TokensFrom(ts, i) ==
    IF i > Len(ts) THEN <<>>
    ELSE Split(ts[i].text) \o TokensFrom(ts, i + 1)

SpeakerSequence(ts) == [i \in 1 .. Len(ts) |-> ts[i].speaker]

\* out is the sequence in with some elements that repeat their
\* predecessor left out.
CollapsedFrom(out, in) ==
    LET repeats == { i \in 2 .. Len(in) : in[i] = in[i - 1] }
    IN  \E dropped \in SUBSET repeats :
            /\ Cardinality(dropped) = Len(in) - Len(out)
            /\ LET idx == SortedSeq((1 .. Len(in)) \ dropped)
               IN  out = [k \in 1 .. Len(idx) |-> in[idx[k]]]

\* C17: the merger conserves content.  The texts of its output, taken in
\* list order, hold the same tokens in the same order as the texts of its
\* input, overall and for each speaker; the output has no more turns than
\* the input; and the speakers of the output are the speakers of the input
\* with some same-speaker adjacent repeats collapsed.
C17_ContentConserved ==
    pc = "done" =>
        /\ TokensFrom(merged_turns, 1) = TokensFrom(turns, 1)
        /\ \A s \in SpeakerIds :
              TokensFrom(TurnsOf(merged_turns, s), 1) =
                  TokensFrom(TurnsOf(turns, s), 1)
        /\ Len(merged_turns) <= Len(turns)
        /\ CollapsedFrom(SpeakerSequence(merged_turns), SpeakerSequence(turns))

\* The merger has merged some turns of a list that is not in onset order,
\* and left one same-speaker repeat standing.
C17_Witness ==
    /\ pc = "done"
    /\ Len(merged_turns) < Len(turns)
    /\ \E i \in 1 .. (Len(turns) - 1) : turns[i].onset > turns[i + 1].onset
    /\ \E k \in 1 .. (Len(merged_turns) - 1) :
          merged_turns[k].speaker = merged_turns[k + 1].speaker

\* The runs of input turns behind the output turns: starts holds the index
\* of the first input turn of each run, and output turn k spans its run
\* from the onset of the first turn to the offset of the last.
SpansRuns(out, in, starts) ==
    LET idx == SortedSeq(starts)
        last(k) == IF k = Len(idx) THEN Len(in) ELSE idx[k + 1] - 1
    IN  /\ Cardinality(starts) = Len(out)
        /\ in # <<>> => 1 \in starts
        /\ \A k \in 1 .. Len(out) :
              /\ out[k].onset = in[idx[k]].onset
              /\ out[k].offset = in[last(k)].offset
              /\ \A i \in idx[k] .. last(k) : in[i].speaker = out[k].speaker

\* C18: the merger's output for the segmenter's output is ordered by
\* non-decreasing onset, every turn of it has onset <= offset, and each
\* turn runs from the onset of the first input turn of its run to the
\* offset of the last.
C18_MergedOrdered ==
    pc = "done" =>
        /\ \A k \in 1 .. (Len(merged_turns) - 1) :
              merged_turns[k].onset <= merged_turns[k + 1].onset
        /\ \A k \in 1 .. Len(merged_turns) :
              merged_turns[k].onset <= merged_turns[k].offset
        /\ \E starts \in SUBSET (1 .. Len(turns)) :
              SpansRuns(merged_turns, turns, starts)

\* The output holds a turn merged from several input turns, so one that
\* ends later than its first input turn ended, and a turn after it.
C18_Witness ==
    /\ pc = "done"
    /\ \E k \in 1 .. (Len(merged_turns) - 1) :
          /\ ~InSeq(merged_turns[k], turns)
          /\ merged_turns[k].onset < merged_turns[k].offset
          /\ merged_turns[k].offset < merged_turns[k + 1].onset

====
